---- MODULE Spec2Model ----
(***************************************************************************)
(* DatabaseLandBalancer (bw2landbalancer/database_land_balancer.py).       *)
(*                                                                         *)
(* The balancer is modelled as a state machine: its fields are the         *)
(* variables, and each public method is one action that runs the whole     *)
(* method.  The collaborators (bw2data registries, the per-activity        *)
(* resampler ActivityLandBalancer, the presamples writer) are inputs of    *)
(* the actions.                                                            *)
(*                                                                         *)
(* Encodings                                                               *)
(*   None            the empty tuple <<>>; a set value x is <<x>>          *)
(*   str             a tuple of characters, so that `p in name` is a       *)
(*                   substring test that can fail                          *)
(*   numpy 2-D array a tuple of rows, each row a tuple of `iterations`     *)
(*                   cells; every block has at least one row               *)
(*   index tuple     <<flow_key, act_key>> or <<flow_key, act_key, tag>>   *)
(***************************************************************************)
EXTENDS Integers, Sequences, FiniteSets, TLC

VARIABLES
    databases,       \* bd.databases: names of the databases of the project
    flows,           \* bd.Database(biosphere): the flows, in iteration order
    activities,      \* bd.Database(database_name): activity keys, in order
    phase,           \* "new" | "ready" | "failed": is there an object
    land_in_keys,    \* self.land_in_keys
    land_out_keys,   \* self.land_out_keys
    all_land_keys,   \* self.all_land_keys
    matrix_indices,  \* self.matrix_indices
    matrix_samples,  \* self.matrix_samples
    result,          \* how the last call ended: returned value or raised error
    serial,          \* rows of numeric blocks the resampler has yielded so far
    last             \* what the last call did to its collaborators

vars == <<databases, flows, activities, phase, land_in_keys, land_out_keys,
          all_land_keys, matrix_indices, matrix_samples, result, serial, last>>

env == <<databases, flows, activities>>
land == <<land_in_keys, land_out_keys, all_land_keys>>

-----------------------------------------------------------------------------
(* Bounds of the model *)

MaxFlows == 2        \* flows in the biosphere registry
MaxPatterns == 2     \* patterns in land_from_patterns / land_to_patterns
MaxTotalRows == 2    \* rows the resampler yields over the whole run

-----------------------------------------------------------------------------
(* Values *)

None == <<>>
Some(x) == <<x>>

DatabaseNames == {"db", "biosphere3"}
ActKeys == {"a1", "a2"}
Tags == {"technosphere", "biosphere"}
IterationCounts == {1, 2}   \* iterations (columns) a call may ask for

\* Flow names and patterns: short strings over a two-letter alphabet.
FlowNames == {<<"f">>, <<"t">>, <<"f", "t">>, <<"x">>}
Patterns == {<<"f">>, <<"t">>, <<"f", "t">>}

SeqsUpTo(S, n) == UNION {[1..k -> S] : k \in 0..n}
Registries == SeqsUpTo(FlowNames, MaxFlows)
PatternTuples == SeqsUpTo(Patterns, MaxPatterns) \ {<<>>}

RECURSIVE Sum(_, _)
Sum(f, k) == IF k = 0 THEN 0 ELSE f[k] + Sum(f, k - 1)

-----------------------------------------------------------------------------
(* __init__ *)

\* `pattern in name` on Python strings
In(pattern, name) ==
    \E i \in 0..(Len(name) - Len(pattern)) :
        SubSeq(name, i + 1, i + Len(pattern)) = pattern

\* ef.key of the i-th flow of the registry: (database, code)
Key(biosphere, i) == <<biosphere, i>>

\* a variant that stops at the first matching pattern (break after append)
RECURSIVE ForPattern_Break(_, _, _, _)
ForPattern_Break(keys, key, name, patterns) ==
    IF patterns = <<>> THEN keys
    ELSE IF In(Head(patterns), name) THEN Append(keys, key)
    ELSE ForPattern_Break(keys, key, name, Tail(patterns))

\* the inner loop over the patterns, for one flow
RECURSIVE ForPattern(_, _, _, _)
ForPattern(keys, key, name, patterns) ==
    IF patterns = <<>> THEN keys
    ELSE ForPattern(IF In(Head(patterns), name) THEN Append(keys, key) ELSE keys,
                    key, name, Tail(patterns))

\* the outer loop over the flows of the registry
RECURSIVE ForEf(_, _, _, _, _)
ForEf(keys, biosphere, registry, patterns, i) ==
    IF i > Len(registry) THEN keys
    ELSE ForEf(ForPattern(keys, Key(biosphere, i), registry[i], patterns),
               biosphere, registry, patterns, i + 1)

LandKeys(biosphere, registry, patterns) == ForEf(<<>>, biosphere, registry, patterns, 1)

AllLandKeys(in_keys, out_keys) == in_keys \o out_keys

NoLast == [args |-> <<>>, scans |-> 0, invoked |-> <<>>, yielded |-> <<>>,
           iterations |-> 0, warned |-> FALSE, written |-> None]

\* lines 77, 80: raise ValueError; no object, the registry was not read
Construct_Fail(args) ==
    /\ phase' = "failed"
    /\ result' = [op |-> "__init__", status |-> "raised", error |-> "ValueError",
                  value |-> None]
    /\ last' = [NoLast EXCEPT !.args = args]
    /\ UNCHANGED <<env, land, matrix_indices, matrix_samples, serial>>

\* lines 78-98: the fields are set; the registry is read twice
Construct_Ok(args) ==
    /\ phase' = "ready"
    /\ matrix_indices' = <<>>
    /\ matrix_samples' = None
    /\ land_in_keys' = LandKeys(args[2], flows, args[3])
    /\ land_out_keys' = LandKeys(args[2], flows, args[4])
    /\ all_land_keys' = AllLandKeys(land_in_keys', land_out_keys')
    /\ result' = [op |-> "__init__", status |-> "returned", error |-> "none",
                  value |-> None]
    /\ last' = [NoLast EXCEPT !.args = args, !.scans = 2]
    /\ UNCHANGED <<env, serial>>

\* a variant without the check of the biosphere name
Checks_NoBiosphere(database_name, biosphere, project) ==
    IF database_name \notin project THEN "raise" ELSE "pass"

\* lines 76-80: the two existence checks, in this order
Checks(database_name, biosphere, project) ==
    IF database_name \notin project THEN "raise"
    ELSE IF biosphere \notin project THEN "raise"
    ELSE "pass"

Construct ==
    /\ phase = "new"
    /\ \E database_name \in DatabaseNames, biosphere \in DatabaseNames,
          land_from_patterns \in PatternTuples, land_to_patterns \in PatternTuples :
          LET args == <<database_name, biosphere, land_from_patterns, land_to_patterns>>
          IN  IF Checks(database_name, biosphere, databases) = "raise"
              THEN Construct_Fail(args)
              ELSE Construct_Ok(args)

-----------------------------------------------------------------------------
(* ActivityLandBalancer.generate_samples: the per-activity resampler.       *)
(* Its module, activity_land_balancer.py, is modelled from its contract:    *)
(* a finite, possibly empty lazy sequence of (numeric-block, index-block)   *)
(* pairs,                                                                   *)
(* each numeric block with `iterations` columns, each index block either    *)
(* all 2-tuples (flow_key, act_key) or all 3-tuples (flow_key, act_key,     *)
(* tag), one index tuple per row; producing the next pair may raise.        *)
(* What an activity makes the resampler yield is an input of the call: a    *)
(* Plan lists the blocks' row counts and forms, and whether the generator   *)
(* raises after the last of them.  Sample values are opaque: every row      *)
(* yielded carries its serial number, in its cells and as its flow key.     *)

Forms == {"pair"} \cup Tags
BlockRows == {1, 2}      \* rows of one block
BlockCounts == {0, 1, 2} \* blocks one resampler run yields
BlockShapes == [rows : BlockRows, form : Forms]
Plans == [blocks : UNION {[1..k -> BlockShapes] : k \in BlockCounts}, raises : BOOLEAN]
PlanRows(plan, k) == Sum([j \in 1..Len(plan.blocks) |-> plan.blocks[j].rows], k)
PlanTotal(plan) == PlanRows(plan, Len(plan.blocks))
PlansWithin(n) == {plan \in Plans : PlanTotal(plan) <= n}

\* one plan per activity of a batch, n activities yielding at most r rows in all
RECURSIVE PlanTuples(_, _)
PlanTuples(n, r) ==
    IF n = 0 THEN {<<>>}
    ELSE UNION {{<<plan>> \o rest : rest \in PlanTuples(n - 1, r - PlanTotal(plan))} :
                   plan \in PlansWithin(r)}

BlockData(act_key, iterations, b, s0) ==
    << [r \in 1..b.rows |-> [c \in 1..iterations |-> s0 + r]],
       [r \in 1..b.rows |-> IF b.form = "pair" THEN <<s0 + r, act_key>>
                                               ELSE <<s0 + r, act_key, b.form>>] >>

generate_samples(act_key, iterations, plan, s0) ==
    [data |-> [k \in 1..Len(plan.blocks) |->
                  BlockData(act_key, iterations, plan.blocks[k],
                            s0 + PlanRows(plan, k - 1))],
     raises |-> plan.raises]

-----------------------------------------------------------------------------
(* add_samples_for_act *)

\* numpy: a.shape[1] of a 2-D array with at least one row
Columns(a) == Len(a[1])

\* a variant that compares the row counts (the other axis)
ConcatenateRaises_Rows(a, b) == Len(a) /= Len(b)

\* np.concatenate([a, b], axis=0) raises ValueError unless the widths agree
ConcatenateRaises(a, b) == Columns(a) /= Columns(b)
Concatenate(a, b) == a \o b

\* a variant that dispatches on len(data[1]), the number of tuples of the block
ExtendIndices_LenOfBlock(indices, data1) ==
    IF Len(data1) = 2
    THEN indices \o [r \in 1..Len(data1) |-> <<data1[r][1], data1[r][2], "biosphere">>]
    ELSE indices \o data1

\* lines 117-121: the index block, dispatched on the length of its first tuple
ExtendIndices(indices, data1) ==
    IF Len(data1[1]) = 2
    THEN indices \o [r \in 1..Len(data1) |-> <<data1[r][1], data1[r][2], "biosphere">>]
    ELSE indices \o data1

\* lines 117-125: the body of the loop, for one yielded pair `data`
\* st: the two fields, how the call stands, and the blocks consumed so far
LoopBody(st, data) ==
    LET indices == ExtendIndices(st.matrix_indices, data[2])
        seen == [st EXCEPT !.matrix_indices = indices,
                           !.yielded = st.yielded \o data[2],
                           !.rows = st.rows + Len(data[1])]
    IN  IF st.matrix_samples = None
        THEN [seen EXCEPT !.matrix_samples = Some(data[1])]
        ELSE IF ConcatenateRaises(st.matrix_samples[1], data[1])
        THEN [seen EXCEPT !.status = "raised", !.error = "ValueError"]
        ELSE [seen EXCEPT !.matrix_samples =
                              Some(Concatenate(st.matrix_samples[1], data[1]))]

\* line 116: the for loop over the generator; an exception ends the call
RECURSIVE ForData(_, _, _)
ForData(st, gen, k) ==
    IF st.status = "raised" THEN st
    ELSE IF k > Len(gen.data)
    THEN IF gen.raises
         THEN [st EXCEPT !.status = "raised", !.error = "ResamplerError"]
         ELSE st
    ELSE ForData(LoopBody(st, gen.data[k]), gen, k + 1)

\* the method: from the fields (indices, samples) to the fields after the call
add_samples_for_act(indices, samples, act_key, iterations, plan, s0) ==
    ForData([matrix_indices |-> indices, matrix_samples |-> samples,
             status |-> "returned", error |-> "none", yielded |-> <<>>, rows |-> 0],
            generate_samples(act_key, iterations, plan, s0), 1)

AddSamplesForAct ==
    /\ phase = "ready"
    /\ \E act_key \in ActKeys, iterations \in IterationCounts,
          plan \in PlansWithin(MaxTotalRows - serial) :
          LET st == add_samples_for_act(matrix_indices, matrix_samples, act_key,
                                        iterations, plan, serial)
          IN  /\ matrix_indices' = st.matrix_indices
              /\ matrix_samples' = st.matrix_samples
              /\ serial' = serial + st.rows
              /\ result' = [op |-> "add_samples_for_act", status |-> st.status,
                            error |-> st.error, value |-> None]
              /\ last' = [NoLast EXCEPT
                             !.invoked = <<[act_key |-> act_key, status |-> st.status]>>,
                             !.yielded = st.yielded,
                             !.iterations = iterations]
    /\ UNCHANGED <<env, phase, land>>

-----------------------------------------------------------------------------
(* add_samples_for_all_acts *)

\* line 139: the keys of the activities of the database, read once
ActKeysSnapshot(database) == database

\* a variant that goes on to the next activity when one fails (try/except: continue)
RECURSIVE ForActKey_Continue(_, _, _, _, _)
ForActKey_Continue(st, act_keys, iterations, plans, k) ==
    IF k > Len(act_keys) THEN st
    ELSE LET r == add_samples_for_act(st.matrix_indices, st.matrix_samples,
                                      act_keys[k], iterations, plans[k],
                                      st.serial)
         IN  ForActKey_Continue([matrix_indices |-> r.matrix_indices,
                                 matrix_samples |-> r.matrix_samples,
                                 status |-> r.status, error |-> r.error,
                                 serial |-> st.serial + r.rows,
                                 invoked |-> Append(st.invoked,
                                                    [act_key |-> act_keys[k],
                                                     status |-> r.status]),
                                 yielded |-> st.yielded \o r.yielded],
                                act_keys, iterations, plans, k + 1)

\* lines 140-141: the loop over the snapshot; an exception ends it
\* plans[k]: what the k-th activity makes the resampler yield
RECURSIVE ForActKey(_, _, _, _, _)
ForActKey(st, act_keys, iterations, plans, k) ==
    IF st.status = "raised" \/ k > Len(act_keys) THEN st
    ELSE LET r == add_samples_for_act(st.matrix_indices, st.matrix_samples,
                                      act_keys[k], iterations, plans[k],
                                      st.serial)
         IN  ForActKey([matrix_indices |-> r.matrix_indices,
                        matrix_samples |-> r.matrix_samples,
                        status |-> r.status, error |-> r.error,
                        serial |-> st.serial + r.rows,
                        invoked |-> Append(st.invoked, [act_key |-> act_keys[k],
                                                        status |-> r.status]),
                        yielded |-> st.yielded \o r.yielded],
                       act_keys, iterations, plans, k + 1)

add_samples_for_all_acts(indices, samples, database, iterations, plans, s0) ==
    ForActKey([matrix_indices |-> indices, matrix_samples |-> samples,
               status |-> "returned", error |-> "none", serial |-> s0,
               invoked |-> <<>>, yielded |-> <<>>],
              ActKeysSnapshot(database), iterations, plans, 1)

AddSamplesForAllActs ==
    /\ phase = "ready"
    /\ \E iterations \in IterationCounts,
          plans \in PlanTuples(Len(activities), MaxTotalRows - serial) :
          LET st == add_samples_for_all_acts(matrix_indices, matrix_samples,
                                             activities, iterations, plans, serial)
          IN  /\ matrix_indices' = st.matrix_indices
              /\ matrix_samples' = st.matrix_samples
              /\ serial' = st.serial
              /\ result' = [op |-> "add_samples_for_all_acts", status |-> st.status,
                            error |-> st.error, value |-> None]
              /\ last' = [NoLast EXCEPT !.invoked = st.invoked,
                                        !.yielded = st.yielded,
                                        !.iterations = iterations]
    /\ UNCHANGED <<env, phase, land>>

-----------------------------------------------------------------------------
(* create_presamples *)

\* a variant of the guard with the `not` of line 160 lost
HasMatrixData_Negated(samples, indices) == ~(samples /= None /\ indices /= <<>>)

\* line 160: all([self.matrix_samples is not None, self.matrix_indices])
HasMatrixData(samples, indices) == samples /= None /\ indices /= <<>>

\* lines 161-166: the warning branch
Warn ==
    /\ result' = [op |-> "create_presamples", status |-> "returned", error |-> "none",
                  value |-> None]
    /\ last' = [NoLast EXCEPT !.warned = TRUE]

\* lines 168-172: split_inventory_presamples and create_presamples_package are
\* handed the two fields; the package writer returns (id_, dirpath) or raises
WritePackage ==
    \E writer \in {"returns", "raises"} :
        /\ result' = IF writer = "returns"
                     THEN [op |-> "create_presamples", status |-> "returned",
                           error |-> "none", value |-> Some(<<"id_", "dirpath">>)]
                     ELSE [op |-> "create_presamples", status |-> "raised",
                           error |-> "WriterError", value |-> None]
        /\ last' = [NoLast EXCEPT !.written = Some(<<matrix_samples, matrix_indices>>)]

\* a variant that empties the accumulated state once it is written
CreatePresamples_Clears ==
    /\ phase = "ready"
    /\ IF ~(matrix_samples /= None /\ matrix_indices /= <<>>)
       THEN Warn /\ UNCHANGED <<matrix_indices, matrix_samples>>
       ELSE WritePackage /\ matrix_indices' = <<>> /\ matrix_samples' = None
    /\ UNCHANGED <<env, phase, land, serial>>

CreatePresamples ==
    /\ phase = "ready"
    /\ IF ~HasMatrixData(matrix_samples, matrix_indices) THEN Warn ELSE WritePackage
    /\ UNCHANGED <<env, phase, land, matrix_indices, matrix_samples, serial>>

-----------------------------------------------------------------------------
(* Specifications *)

\* before construction: any project, any registry
InitNew ==
    /\ databases \in SUBSET DatabaseNames
    /\ flows \in Registries
    /\ activities = <<>>
    /\ phase = "new"
    /\ land_in_keys = <<>>
    /\ land_out_keys = <<>>
    /\ all_land_keys = <<>>
    /\ matrix_indices = <<>>
    /\ matrix_samples = None
    /\ result = [op |-> "none", status |-> "returned", error |-> "none", value |-> None]
    /\ serial = 0
    /\ last = NoLast

\* after DatabaseLandBalancer("db", "biosphere3", ..., ("f",), ("t",)) on a
\* registry of three flows; the inventory database is empty or holds two activities
SampleFlows == << <<"f">>, <<"x">>, <<"t">> >>
SampleDatabases == {<<>>, <<"a2", "a1">>}

Init ==
    /\ databases = DatabaseNames
    /\ flows = SampleFlows
    /\ activities \in SampleDatabases
    /\ phase = "ready"
    /\ land_in_keys = LandKeys("biosphere3", flows, << <<"f">> >>)
    /\ land_out_keys = LandKeys("biosphere3", flows, << <<"t">> >>)
    /\ all_land_keys = AllLandKeys(land_in_keys, land_out_keys)
    /\ matrix_indices = <<>>
    /\ matrix_samples = None
    /\ result = [op |-> "__init__", status |-> "returned", error |-> "none",
                 value |-> None]
    /\ serial = 0
    /\ last = [NoLast EXCEPT !.args = <<"db", "biosphere3", << <<"f">> >>, << <<"t">> >> >>,
                              !.scans = 2]

Next ==
    \/ AddSamplesForAct
    \/ AddSamplesForAllActs
    \/ CreatePresamples

Spec == Init /\ [][Next]_vars

NextNew ==
    \/ Construct
    \/ CreatePresamples

SpecNew == InitNew /\ [][NextNew]_vars


-----------------------------------------------------------------------------
(* Properties *)

\* rows of matrix_samples, None counting as 0 rows
Rows(samples) == IF samples = None THEN 0 ELSE Len(samples[1])

AddOps == {"add_samples_for_act", "add_samples_for_all_acts"}

\* an index tuple as add_samples_for_act is to store it
Stored(t) == IF Len(t) = 2 THEN <<t[1], t[2], "biosphere">> ELSE t

\* how often x occurs in the sequence s
Count(s, x) == Cardinality({i \in 1..Len(s) : s[i] = x})

\* C1: at every point the rows of matrix_samples are as many as the rows of the
\* numeric blocks the resampler has yielded so far, and matrix_indices is as
\* long as matrix_samples has rows (None counting as 0 rows).
C1_RowCounts ==
    /\ Rows(matrix_samples) = serial
    /\ Len(matrix_indices) = Rows(matrix_samples)

\* C2, as stated: create_presamples right after construction warns, does not
\* call the package writer and returns nothing; right after an
\* add_samples_for_act call that returned without raising, it calls the package
\* writer and (the writer returning) returns the (id, dirpath) pair.
C2_AfterReturnedCall ==
    [][ /\ (result.op = "__init__" /\ result'.op = "create_presamples")
            => /\ last'.warned
               /\ last'.written = None
               /\ result'.status = "returned" /\ result'.value = None
        /\ (/\ result.op = "add_samples_for_act" /\ result.status = "returned"
            /\ result'.op = "create_presamples")
            => /\ last'.written /= None
               /\ result'.status = "returned" => result'.value = Some(<<"id_", "dirpath">>)
      ]_vars

\* C2, amended: create_presamples on a balancer to which the resampler has
\* yielded no block yet warns, does not call the package writer and returns
\* nothing; once the resampler has yielded at least one block, it hands the
\* accumulated (matrix, indices) to the package writer and returns the writer's
\* (id, dirpath) pair, or lets the writer's error through.
C2_AfterYieldedBlock ==
    result.op = "create_presamples" =>
        IF serial = 0
        THEN /\ last.warned
             /\ last.written = None
             /\ result.status = "returned" /\ result.value = None
        ELSE /\ ~last.warned
             /\ last.written = Some(<<matrix_samples, matrix_indices>>)
             /\ result.status = "returned" => result.value = Some(<<"id_", "dirpath">>)
             /\ result.status = "raised" => result.error = "WriterError"

C2_Witness ==
    /\ result.op = "create_presamples"
    /\ result.value = Some(<<"id_", "dirpath">>)
    /\ Len(matrix_indices) = 2

\* C3: the index tuples a call was yielded are stored at the end of
\* matrix_indices, in order, a 2-tuple (flow_key, act_key) as (flow_key,
\* act_key, 'biosphere') and a 3-tuple unchanged; every entry of matrix_indices
\* is a 3-tuple.
C3_IndexTuples ==
    /\ \A i \in 1..Len(matrix_indices) : Len(matrix_indices[i]) = 3
    /\ result.op \in AddOps =>
          LET n == Len(last.yielded)
              m == Len(matrix_indices)
          IN  /\ n <= m
              /\ \A j \in 1..n : matrix_indices[m - n + j] = Stored(last.yielded[j])

C3_Witness ==
    /\ result.op = "add_samples_for_act"
    /\ \E i, j \in 1..Len(last.yielded) :
          /\ Len(last.yielded[i]) = 2
          /\ Len(last.yielded[j]) = 3 /\ last.yielded[j][3] = "technosphere"
    /\ \E i \in 1..Len(matrix_indices) : matrix_indices[i][3] = "technosphere"

\* C4: the i-th entry of matrix_indices describes the i-th row of
\* matrix_samples, and both are in the order in which the resampler yielded
\* the rows.
C4_SameOrder ==
    \A i \in 1..Len(matrix_indices) :
        /\ i <= Rows(matrix_samples)
        /\ matrix_samples[1][i][1] = matrix_indices[i][1]
        /\ i > 1 => matrix_indices[i - 1][1] < matrix_indices[i][1]

\* C5, as stated: an add_samples_for_act call that follows one with another
\* iteration count raises the concatenation's ValueError.
C5_DifferentCounts ==
    [][ (/\ result.op = "add_samples_for_act"
         /\ result'.op = "add_samples_for_act"
         /\ last.iterations /= last'.iterations)
        => (result'.status = "raised" /\ result'.error = "ValueError") ]_vars

\* C5, amended: an add_samples_for_act call whose iteration count differs from
\* the width of the matrix accumulated so far, and to which the resampler
\* yields at least one block, raises the concatenation's ValueError and leaves
\* matrix_samples as it was.
C5_DifferentWidth ==
    [][ (/\ result'.op = "add_samples_for_act"
         /\ matrix_samples /= None
         /\ Columns(matrix_samples[1]) /= last'.iterations
         /\ last'.yielded /= <<>>)
        => (/\ result'.status = "raised" /\ result'.error = "ValueError"
            /\ matrix_samples' = matrix_samples) ]_vars

C5_Witness ==
    /\ result.op = "add_samples_for_act"
    /\ result.error = "ValueError"
    /\ matrix_samples /= None
    /\ Columns(matrix_samples[1]) /= last.iterations
    /\ last.yielded /= <<>>

\* C6: add_samples_for_all_acts calls add_samples_for_act for the activity
\* keys of the database, one after the other in registry order; a call that
\* raises is the last one made and its error is the batch's; without one,
\* every activity gets its call.
C6_BatchInOrder ==
    result.op = "add_samples_for_all_acts" =>
        LET n == Len(last.invoked)
        IN  /\ n <= Len(activities)
            /\ \A k \in 1..n : last.invoked[k].act_key = activities[k]
            /\ \A k \in 1..n : last.invoked[k].status = "raised" => k = n
            /\ result.status = "raised" <=> (n > 0 /\ last.invoked[n].status = "raised")
            /\ result.status = "returned" => n = Len(activities)

C6_Witness ==
    /\ result.op = "add_samples_for_all_acts"
    /\ result.status = "raised"
    /\ Len(last.invoked) = 1
    /\ Len(activities) = 2

\* C7: a constructor call that names an inventory database, or a biosphere,
\* missing from the project raises, leaves no object and does not read the
\* biosphere registry.
C7_MissingDatabase ==
    (/\ result.op = "__init__"
     /\ (last.args[1] \notin databases \/ last.args[2] \notin databases))
    => /\ phase = "failed"
       /\ result.status = "raised"
       /\ last.scans = 0
       /\ land_in_keys = <<>> /\ land_out_keys = <<>> /\ all_land_keys = <<>>

C7_Witness ==
    /\ phase = "failed"
    /\ last.args[1] \in databases
    /\ last.args[2] \notin databases
    /\ flows /= <<>>

\* C8: after construction land_in_keys holds, in registry order, the key of
\* each flow once per 'from' pattern its name contains, land_out_keys the same
\* for the 'to' patterns, and all_land_keys is land_in_keys followed by
\* land_out_keys.
KeysByPattern(keys, biosphere, patterns) ==
    /\ \A i \in 1..Len(flows) :
          Count(keys, <<biosphere, i>>) =
              Cardinality({j \in 1..Len(patterns) : In(patterns[j], flows[i])})
    /\ \A a \in 1..Len(keys) : keys[a][1] = biosphere /\ keys[a][2] \in 1..Len(flows)
    /\ \A a, b \in 1..Len(keys) : a < b => keys[a][2] <= keys[b][2]

C8_LandKeys ==
    (result.op = "__init__" /\ phase = "ready") =>
        /\ KeysByPattern(land_in_keys, last.args[2], last.args[3])
        /\ KeysByPattern(land_out_keys, last.args[2], last.args[4])
        /\ Len(all_land_keys) = Len(land_in_keys) + Len(land_out_keys)
        /\ SubSeq(all_land_keys, 1, Len(land_in_keys)) = land_in_keys
        /\ SubSeq(all_land_keys, Len(land_in_keys) + 1, Len(all_land_keys)) = land_out_keys

C8_Witness ==
    /\ result.op = "__init__" /\ phase = "ready"
    /\ Len(flows) = 2
    /\ Count(land_in_keys, <<last.args[2], 2>>) = 2
    /\ Count(land_in_keys, <<last.args[2], 1>>) = 1
    /\ land_out_keys /= <<>>
    /\ land_out_keys /= land_in_keys

\* C9: create_presamples changes neither matrix_samples, matrix_indices nor the
\* land-key lists, and what it hands to the package writer is the accumulated
\* (matrix, indices).
C9_ReadOnlyExport ==
    [][ result'.op = "create_presamples"
        => /\ matrix_samples' = matrix_samples
           /\ matrix_indices' = matrix_indices
           /\ UNCHANGED land
           /\ last'.written /= None
                 => last'.written = Some(<<matrix_samples, matrix_indices>>) ]_vars

C9_Witness ==
    /\ result.op = "create_presamples"
    /\ last.written /= None
    /\ matrix_samples /= None
    /\ Len(matrix_indices) = 2
    /\ all_land_keys /= <<>>

\* C10: an add_samples_for_act call that raises leaves matrix_samples and
\* matrix_indices as they were before the call.
C10_RaiseRestores ==
    [][ (result'.op = "add_samples_for_act" /\ result'.status = "raised")
        => (matrix_samples' = matrix_samples /\ matrix_indices' = matrix_indices) ]_vars

====
